---- MODULE Spec2Model ----
(***************************************************************************)
(* OpenWeatherMap MCP server: location parsing, per-credential client      *)
(* cache, request configuration and the tool handlers' control flow.       *)
(*                                                                         *)
(* Strings that the code inspects character by character (location         *)
(* inputs) are sequences of one-character strings.  Numbers produced by    *)
(* parseFloat are fixed-point integers scaled by Scale.  Error messages    *)
(* are sequences of phrases; String.includes is phrase membership.         *)
(***************************************************************************)
EXTENDS Integers, Sequences, FiniteSets, TLC

\* ------------------------------------------------------------------ bounds
\* tool invocations begun in one run
MaxCalls == 2

\* calls of the resolver in the runs that exercise it on its own
MaxResolves == 3

\* calls of configureClientForLocation in the runs that exercise it on its own
MaxConfigures == 3

\* number of fractional digits kept by the fixed-point numbers
FracDigits == 2

\* longest string of the exhaustive parser inputs
MaxLen == 4

\* entries of the 3-hourly series the forecast endpoint returns
MaxSeries == 17

\* tags of an alert
MaxTags == 2

\* a requested day count is given in parts of a day
DayParts == 16

\* a bearing is given in parts of a degree
BearingParts == 4

None == "none"

\* ------------------------------------------------------- character classes
Digit == {"0", "1", "2", "3", "4", "5", "6", "7", "8", "9"}

DigitVal(c) ==
  CASE c = "0" -> 0 [] c = "1" -> 1 [] c = "2" -> 2 [] c = "3" -> 3
    [] c = "4" -> 4 [] c = "5" -> 5 [] c = "6" -> 6 [] c = "7" -> 7
    [] c = "8" -> 8 [] c = "9" -> 9

\* \s of the regular expressions and the characters String.trim removes
Space == {" ", "\t", "\n"}

\* [:\s]
ColonSpace == {":"} \cup Space

\* [,\s]
CommaSpace == {","} \cup Space

\* the /i flag: compare letters ignoring case
Lower(c) ==
  CASE c = "L" -> "l" [] c = "A" -> "a" [] c = "T" -> "t"
    [] c = "O" -> "o" [] c = "N" -> "n" [] OTHER -> c

\* the element of a singleton; The({e : x \in {v}}) is e with x bound to the
\* value of v, as a const declaration binds it
The(S) == CHOOSE x \in S : TRUE

\* ------------------------------------------------------------ String.trim
Trim(s) ==
  LET keep == {k \in 1..Len(s) : s[k] \notin Space}
  IN IF keep = {} THEN <<>>
     ELSE SubSeq(s, CHOOSE a \in keep : \A k \in keep : a <= k,
                    CHOOSE b \in keep : \A k \in keep : k <= b)

\* ------------------------------------------------------ regex building blocks
\* a greedy class*: the first position >= p whose character is not in the
\* class (Len(s) + 1 at the end of the string)
Skip(s, p, class) ==
  CHOOSE q \in p..(Len(s) + 1) :
    /\ \A k \in p..(q - 1) : s[k] \in class
    /\ q = Len(s) + 1 \/ s[q] \notin class

\* (-?\d+\.?\d*) matched greedily at p: the position after the match, 0 if
\* the group cannot match at p
ScanNumber(s, p) ==
  The({ The({ IF d = q THEN 0
              ELSE Skip(s, IF d <= Len(s) /\ s[d] = "." THEN d + 1 ELSE d, Digit)
              : d \in {Skip(s, q, Digit)} })
        : q \in {IF p <= Len(s) /\ s[p] = "-" THEN p + 1 ELSE p} })

\* literal word w at position p, ignoring case
WordAt(s, p, w) ==
  /\ p + Len(w) - 1 <= Len(s)
  /\ \A k \in 1..Len(w) : Lower(s[p + k - 1]) = w[k]

\* ---------------------------------------------------------------- parseFloat
RECURSIVE Pow10(_)
Pow10(n) == IF n = 0 THEN 1 ELSE 10 * Pow10(n - 1)

\* a JavaScript number n is represented by the integer n * Scale
Scale == Pow10(FracDigits)

\* the number written by the digits s[p..e-1]
RECURSIVE DigitsValue(_, _, _)
DigitsValue(s, p, e) ==
  IF p >= e THEN 0 ELSE DigitsValue(s, p, e - 1) * 10 + DigitVal(s[e - 1])

\* the fraction digits s[f..e-1]; a number with more digits than the
\* representation keeps is represented by the next value away from zero, so
\* that its comparisons with whole numbers stay exact
FractionValue(s, f, e) ==
  IF e - f > FracDigits
    THEN DigitsValue(s, f, f + FracDigits)
           + (IF \E k \in (f + FracDigits)..(e - 1) : s[k] # "0" THEN 1 ELSE 0)
  ELSE DigitsValue(s, f, e) * Pow10(FracDigits - (e - f))

\* value of s[p..e-1], a match of -?\d+\.?\d*, as a fixed-point integer
ParseFloat(s, p, e) ==
  The({ The({ (IF q > p THEN 0 - 1 ELSE 1)
                * (DigitsValue(s, q, d) * Scale
                     + FractionValue(s, IF d < e /\ s[d] = "." THEN d + 1 ELSE d, e))
              : d \in {Skip(s, q, Digit)} })
        : q \in {IF s[p] = "-" THEN p + 1 ELSE p} })

\* ------------------------------------------------------------ location parser
\* variant: the latitude is checked against the longitude's limits
isValidCoordinate_WideLatitude(lat, lon) ==
  /\ lat >= (0 - 180) * Scale /\ lat <= 180 * Scale
  /\ lon >= (0 - 180) * Scale /\ lon <= 180 * Scale

isValidCoordinate(lat, lon) ==
  /\ lat >= (0 - 90) * Scale /\ lat <= 90 * Scale
  /\ lon >= (0 - 180) * Scale /\ lon <= 180 * Scale

\* the part of the explicit pattern after the first group, which ended at e1:
\* <<start2, end2>> of the second group, or <<>> when it does not match
ExplicitTail(s, e1) ==
  The({ IF k = e1 \/ ~WordAt(s, k, <<"l", "o", "n">>) THEN <<>>
        ELSE The({ The({ IF e2 = 0 THEN <<>> ELSE <<m, e2>>
                         : e2 \in {ScanNumber(s, m)} })
                   : m \in {Skip(s, k + 3, ColonSpace)} })
        : k \in {Skip(s, e1, CommaSpace)} })

\* /lat[:\s]*(-?\d+\.?\d*)[,\s]+lon[:\s]*(-?\d+\.?\d*)/i attempted at start i:
\* <<start1, end1, start2, end2>> of the two groups, or <<>> when no match
ExplicitAt(s, i) ==
  IF ~WordAt(s, i, <<"l", "a", "t">>) THEN <<>>
  ELSE The({ The({ IF e1 = 0 THEN <<>>
                   ELSE The({ IF g2 = <<>> THEN <<>> ELSE <<j, e1>> \o g2
                              : g2 \in {ExplicitTail(s, e1)} })
                   : e1 \in {ScanNumber(s, j)} })
             : j \in {Skip(s, i + 3, ColonSpace)} })

\* String.match without the g flag: of the matches, the leftmost
Leftmost(matches) ==
  IF matches = {} THEN <<>>
  ELSE CHOOSE m \in matches : \A n \in matches : m[1] <= n[1]

ExplicitCoordMatch(s) ==
  Leftmost({ExplicitAt(s, i) : i \in 1..Len(s)} \ {<<>>})

\* /^(-?\d+\.?\d*)[,\s]+(-?\d+\.?\d*)$/
CoordMatch(s) ==
  The({ IF e1 = 0 THEN <<>>
        ELSE The({ The({ IF k = e1 \/ e2 # Len(s) + 1 THEN <<>> ELSE <<1, e1, k, e2>>
                         : e2 \in {ScanNumber(s, k)} })
                   : k \in {Skip(s, e1, CommaSpace)} })
        : e1 \in {ScanNumber(s, 1)} })

Coordinates(lat, lon) ==
  [type |-> "coordinates", latitude |-> lat, longitude |-> lon, city |-> <<>>]

City(name) ==
  [type |-> "city", latitude |-> 0, longitude |-> 0, city |-> name]

\* control falls through an "if (match)" block
FallThrough == [type |-> "none", latitude |-> 0, longitude |-> 0, city |-> <<>>]

\* variant: the range limits themselves are rejected
MatchedCoordinates_OpenRange(s, m) ==
  IF m = <<>> THEN FallThrough
  ELSE The({ IF isValidCoordinate(c[1], c[2]) /\ isValidCoordinate(c[1] + 1, c[2] + 1)
                  /\ isValidCoordinate(c[1] - 1, c[2] - 1)
               THEN Coordinates(c[1], c[2])
             ELSE FallThrough
             : c \in {<<ParseFloat(s, m[1], m[2]), ParseFloat(s, m[3], m[4])>>} })

\* one of the two "if (match)" blocks: the coordinates when the pattern
\* matched and the numbers are in range
MatchedCoordinates(s, m) ==
  IF m = <<>> THEN FallThrough
  ELSE The({ IF isValidCoordinate(c[1], c[2]) THEN Coordinates(c[1], c[2])
             ELSE FallThrough
             : c \in {<<ParseFloat(s, m[1], m[2]), ParseFloat(s, m[3], m[4])>>} })

\* parseLocation after the trim
ParseTrimmed(trimmed) ==
  The({ IF explicit # FallThrough THEN explicit
        ELSE The({ IF bare # FallThrough THEN bare ELSE City(trimmed)
                   : bare \in {MatchedCoordinates(trimmed, coordMatch)
                                 : coordMatch \in {CoordMatch(trimmed)}} })
        : explicit \in {MatchedCoordinates(trimmed, explicitCoordMatch)
                          : explicitCoordMatch \in {ExplicitCoordMatch(trimmed)}} })

\* variant: the input is not trimmed
parseLocation_Untrimmed(location) == The({ParseTrimmed(trimmed) : trimmed \in {location}})

parseLocation(location) == The({ParseTrimmed(trimmed) : trimmed \in {Trim(location)}})

\* ------------------------------------------------------------------ inputs
\* one-character-per-element spellings of the location arguments
Loc00 == <<"0", ",", "0">>

Loc900 == <<"9", "0", ",", "0">>

LocLat0 == <<"l", "a", "t", ":", "0", ",", "l", "o", "n", ":", "0">>

Loc57 == <<"5", ".", "5", ",", "-", "7">>

LocBlank == <<" ", " ">>

LocRome == <<" ", "R", "o", "m", "e">>

LocationInputs == {Loc00, Loc900, LocLat0, Loc57, LocBlank, LocRome}

Units == {"metric", "imperial", "standard"}

UnitArgs == Units \cup {None}

\* latitude/longitude arguments of the coordinate tools (already scaled)
CoordInputs == {<<0, 0>>, <<40 * Scale, (0 - 74) * Scale>>}

\* API keys: an identity and the length of the string
KeyA == [id |-> "A", len |-> 32]

KeyB == [id |-> "B", len |-> 40]

KeyShort == [id |-> "S", len |-> 31]

ApiKeys == {KeyA, KeyB}

\* no key at all (an unset variable, an undefined field)
NoKey == [id |-> "", len |-> 0]

\* process.env.OPENWEATHER_API_KEY
EnvKeys == {NoKey, KeyShort, KeyA}

\* the transport selected and the key variable of the environment; the HTTP
\* transport of auth/http.ts does not read the variable
Environments == ({"stdio"} \X EnvKeys) \cup {<<"httpStream", NoKey>>}

Session(k) == [apiKey |-> k]

\* null / undefined in place of a session
NoSession == [apiKey |-> NoKey]

\* the session argument handed to a tool handler
SessionArgs == {NoSession} \cup {Session(k) : k \in ApiKeys}

Invocations == {1, 2}

\* ------------------------------------------------------------------- tools
Tool(n, fam, u, act) == [name |-> n, family |-> fam, hasUnits |-> u, action |-> act]

Tools ==
  { Tool("get-current-weather", "location", TRUE, "get current weather"),
    Tool("get-weather-forecast", "location", TRUE, "get weather forecast"),
    Tool("get-hourly-forecast", "location", TRUE, "get hourly weather forecast"),
    Tool("get-daily-forecast", "location", TRUE, "get daily weather forecast"),
    Tool("get-minutely-forecast", "location", FALSE, "get minutely weather forecast"),
    Tool("get-weather-alerts", "location", FALSE, "get weather alerts"),
    Tool("get-current-air-pollution", "location", FALSE, "get current air pollution"),
    Tool("get-location-info", "coords", FALSE, "get location info"),
    Tool("get-onecall-weather", "coords", TRUE, "get OneCall weather"),
    Tool("get-air-pollution", "coords", FALSE, "get air pollution data"),
    Tool("geocode-location", "query", FALSE, "geocode location") }

Args(loc, u, lat, lon) ==
  [location |-> loc, units |-> u, latitude |-> lat, longitude |-> lon]

\* the arguments a tool's schema admits, from the input sets above
ArgsOf(tool) ==
  CASE tool.family = "location" ->
         {Args(l, u, 0, 0) : l \in LocationInputs,
                             u \in IF tool.hasUnits THEN UnitArgs ELSE {None}}
    [] tool.family = "coords" ->
         {Args(<<>>, u, c[1], c[2]) : c \in CoordInputs,
                             u \in IF tool.hasUnits THEN UnitArgs ELSE {None}}
    [] tool.family = "query" ->
         {Args(l, None, 0, 0) : l \in {LocRome, LocBlank}}

\* ------------------------------------------------------------------ errors
\* a thrown value: an Error with a message, or some other value
Err(msg) == [isError |-> TRUE, message |-> msg]

NonError == [isError |-> FALSE, message |-> <<>>]

NoError == [isError |-> FALSE, message |-> <<"-">>]

\* String.includes on a message
Includes(msg, phrase) == \E k \in 1..Len(msg) : msg[k] = phrase

\* error instanceof Error ? error.message : 'Unknown error'
MessageOf(e) == IF e.isError THEN e.message ELSE <<"Unknown error">>

NoSessionError == Err(<<"No authentication session available">>)

InvalidLocationError == Err(<<"Invalid location format">>)

\* what the provider client's promise can reject with
UpstreamErrors ==
  { Err(<<"city not found">>),
    Err(<<"Invalid API key">>),
    Err(<<"Invalid coordinates">>),
    Err(<<"city not found", "Invalid API key">>),
    Err(<<"Invalid coordinates", "Invalid API key">>),
    Err(<<"request timed out">>),
    NonError }

\* a payload whose fields the formatting code cannot read
FormatError == Err(<<"Cannot read properties of undefined">>)

\* ------------------------------------------------------- the provider client
\* the configuration an OpenWeatherAPI instance holds between calls
NoLocation == [kind |-> "unset", lat |-> 0, lon |-> 0, name |-> <<>>]

ByCoordinates(lat, lon) == [kind |-> "coords", lat |-> lat, lon |-> lon, name |-> <<>>]

ByName(name) == [kind |-> "name", lat |-> 0, lon |-> 0, name |-> name]

NewClient(key) == [key |-> key, location |-> NoLocation, units |-> "metric"]

setLocationByCoordinates(heap, c, lat, lon) ==
  [heap EXCEPT ![c].location = ByCoordinates(lat, lon)]

setLocationByName(heap, c, name) ==
  [heap EXCEPT ![c].location = ByName(name)]

setUnits(heap, c, u) == [heap EXCEPT ![c].units = u]

\* --------------------------------------------------------- client resolver
\* variant: the process-wide session wins over the explicit one
EffectiveSession_StdioFirst(session, stdio) == IF stdio # NoSession THEN stdio ELSE session

\* session || getStdioSession()
EffectiveSession(session, stdio) == IF session # NoSession THEN session ELSE stdio

\* variant: no cache lookup, every call constructs and stores a client
getOpenWeatherClient_Uncached(session, stdio, cache, heap) ==
  LET eff == EffectiveSession(session, stdio)
      key == eff.apiKey
  IN IF eff = NoSession
       THEN [ok |-> FALSE, error |-> NoSessionError, client |-> 0,
             cache |-> cache, heap |-> heap]
     ELSE [ok |-> TRUE, error |-> NoError, client |-> Len(heap) + 1,
           cache |-> [cache EXCEPT ![key] = Len(heap) + 1],
           heap |-> Append(heap, NewClient(key))]

\* variant: no fallback to the process-wide session
getOpenWeatherClient_NoFallback(session, stdio, cache, heap) ==
  LET key == session.apiKey
  IN IF session = NoSession
       THEN [ok |-> FALSE, error |-> NoSessionError, client |-> 0,
             cache |-> cache, heap |-> heap]
     ELSE IF cache[key] # 0
       THEN [ok |-> TRUE, error |-> NoError, client |-> cache[key],
             cache |-> cache, heap |-> heap]
     ELSE [ok |-> TRUE, error |-> NoError, client |-> Len(heap) + 1,
           cache |-> [cache EXCEPT ![key] = Len(heap) + 1],
           heap |-> Append(heap, NewClient(key))]

\* variant: one client serves every key
getOpenWeatherClient_OneForAll(session, stdio, cache, heap) ==
  LET eff == EffectiveSession(session, stdio)
      key == eff.apiKey
  IN IF eff = NoSession
       THEN [ok |-> FALSE, error |-> NoSessionError, client |-> 0,
             cache |-> cache, heap |-> heap]
     ELSE IF heap # <<>>
       THEN [ok |-> TRUE, error |-> NoError, client |-> 1,
             cache |-> [cache EXCEPT ![key] = 1], heap |-> heap]
     ELSE [ok |-> TRUE, error |-> NoError, client |-> Len(heap) + 1,
           cache |-> [cache EXCEPT ![key] = Len(heap) + 1],
           heap |-> Append(heap, NewClient(key))]

\* getOpenWeatherClient: the outcome, the client returned and the cache and
\* heap of client objects afterwards
getOpenWeatherClient(session, stdio, cache, heap) ==
  LET eff == EffectiveSession(session, stdio)
      key == eff.apiKey
  IN IF eff = NoSession
       THEN [ok |-> FALSE, error |-> NoSessionError, client |-> 0,
             cache |-> cache, heap |-> heap]
     ELSE IF cache[key] # 0
       THEN [ok |-> TRUE, error |-> NoError, client |-> cache[key],
             cache |-> cache, heap |-> heap]
     ELSE [ok |-> TRUE, error |-> NoError, client |-> Len(heap) + 1,
           cache |-> [cache EXCEPT ![key] = Len(heap) + 1],
           heap |-> Append(heap, NewClient(key))]

\* JavaScript truthiness of a number
Truthy(n) == n # 0

\* variant: a city descriptor is accepted whatever its query
configureClientForLocation_AnyCity(heap, c, location, units) ==
  The({ LET byCoords == parsed.type = "coordinates"
                          /\ Truthy(parsed.latitude) /\ Truthy(parsed.longitude)
            byName == parsed.type = "city"
            located == IF byCoords
                         THEN setLocationByCoordinates(heap, c, parsed.latitude, parsed.longitude)
                         ELSE setLocationByName(heap, c, parsed.city)
        IN IF ~byCoords /\ ~byName
             THEN [ok |-> FALSE, error |-> InvalidLocationError, heap |-> heap]
           ELSE [ok |-> TRUE, error |-> NoError,
                 heap |-> IF units # None THEN setUnits(located, c, units) ELSE located]
        : parsed \in {parseLocation(location)} })

\* variant: the units are set before the location is looked at
configureClientForLocation_UnitsFirst(heap, c, location, units) ==
  The({ LET byCoords == parsed.type = "coordinates"
                          /\ Truthy(parsed.latitude) /\ Truthy(parsed.longitude)
            byName == parsed.type = "city" /\ parsed.city # <<>>
            withUnits == IF units # None THEN setUnits(heap, c, units) ELSE heap
        IN IF ~byCoords /\ ~byName
             THEN [ok |-> FALSE, error |-> InvalidLocationError, heap |-> withUnits]
           ELSE [ok |-> TRUE, error |-> NoError,
                 heap |-> IF byCoords
                            THEN setLocationByCoordinates(withUnits, c, parsed.latitude, parsed.longitude)
                            ELSE setLocationByName(withUnits, c, parsed.city)]
        : parsed \in {parseLocation(location)} })

\* variant: without units the client is put back to metric
configureClientForLocation_ResetUnits(heap, c, location, units) ==
  The({ LET byCoords == parsed.type = "coordinates"
                          /\ Truthy(parsed.latitude) /\ Truthy(parsed.longitude)
            byName == parsed.type = "city" /\ parsed.city # <<>>
            located == IF byCoords
                         THEN setLocationByCoordinates(heap, c, parsed.latitude, parsed.longitude)
                         ELSE setLocationByName(heap, c, parsed.city)
        IN IF ~byCoords /\ ~byName
             THEN [ok |-> FALSE, error |-> InvalidLocationError, heap |-> heap]
           ELSE [ok |-> TRUE, error |-> NoError,
                 heap |-> setUnits(located, c, IF units # None THEN units ELSE "metric")]
        : parsed \in {parseLocation(location)} })

\* configureClientForLocation: the outcome and the heap afterwards
configureClientForLocation(heap, c, location, units) ==
  The({ LET byCoords == parsed.type = "coordinates"
                          /\ Truthy(parsed.latitude) /\ Truthy(parsed.longitude)
            byName == parsed.type = "city" /\ parsed.city # <<>>
            located == IF byCoords
                         THEN setLocationByCoordinates(heap, c, parsed.latitude, parsed.longitude)
                         ELSE setLocationByName(heap, c, parsed.city)
        IN IF ~byCoords /\ ~byName
             THEN [ok |-> FALSE, error |-> InvalidLocationError, heap |-> heap]
           ELSE [ok |-> TRUE, error |-> NoError,
                 heap |-> IF units # None THEN setUnits(located, c, units) ELSE located]
        : parsed \in {parseLocation(location)} })

\* the configuration step of each handler family
ConfigureFor(tool, args, heap, c) ==
  CASE tool.family = "location" ->
         configureClientForLocation(heap, c, args.location,
                                    IF tool.hasUnits THEN args.units ELSE None)
    [] tool.family = "coords" ->
         LET located == setLocationByCoordinates(heap, c, args.latitude, args.longitude)
         IN [ok |-> TRUE, error |-> NoError,
             heap |-> IF tool.hasUnits /\ args.units # None
                        THEN setUnits(located, c, args.units) ELSE located]
    [] tool.family = "query" ->
         [ok |-> TRUE, error |-> NoError,
          heap |-> setLocationByName(heap, c, args.location)]

\* ------------------------------------------------------- error translation
Result(kind, subject, text) == [kind |-> kind, subject |-> subject, text |-> text]

NoResult == Result("none", <<>>, <<>>)

Success == Result("ok", <<>>, <<>>)

LocationNotFound(tool, subject) ==
  Result("notFound", subject,
         <<"Location", "not found. Please check the spelling or try",
           IF tool.family = "query" THEN "a different location name." ELSE "using coordinates.">>)

InvalidKey ==
  Result("invalidKey", <<>>,
         <<"Invalid OpenWeatherMap API key. Please check your configuration.">>)

InvalidCoordinates ==
  Result("invalidCoordinates", <<>>,
         <<"Invalid coordinates: latitude must be between -90 and 90, longitude must be between -180 and 180.">>)

Generic(tool, e) ==
  Result("generic", <<>>, <<"Failed to", tool.action, ":">> \o MessageOf(e))

\* variant: the credential phrase is looked for first
Translate_KeyFirst(tool, args, e) ==
  IF e.isError /\ Includes(e.message, "Invalid API key") THEN InvalidKey
  ELSE IF tool.family = "coords"
    THEN IF e.isError /\ Includes(e.message, "Invalid coordinates") THEN InvalidCoordinates
         ELSE Generic(tool, e)
    ELSE IF e.isError /\ Includes(e.message, "city not found")
           THEN LocationNotFound(tool, args.location)
         ELSE Generic(tool, e)

\* variant: every handler has the catch block of the location handlers
Translate_LocationOnly(tool, args, e) ==
  IF e.isError /\ Includes(e.message, "city not found")
    THEN LocationNotFound(tool, args.location)
  ELSE IF e.isError /\ Includes(e.message, "Invalid API key") THEN InvalidKey
  ELSE Generic(tool, e)

\* the catch block of a handler: the error it throws to the caller
Translate(tool, args, e) ==
  IF tool.family = "coords"
    THEN IF e.isError /\ Includes(e.message, "Invalid coordinates") THEN InvalidCoordinates
         ELSE IF e.isError /\ Includes(e.message, "Invalid API key") THEN InvalidKey
         ELSE Generic(tool, e)
    ELSE IF e.isError /\ Includes(e.message, "city not found")
           THEN LocationNotFound(tool, args.location)
         ELSE IF e.isError /\ Includes(e.message, "Invalid API key") THEN InvalidKey
         ELSE Generic(tool, e)

\* ------------------------------------------------------------------- state
VARIABLES
  phase,        \* "boot", "serving" or "exited" (startServer)
  transport,    \* transportConfig.transportType
  envKey,       \* process.env.OPENWEATHER_API_KEY
  stdioSession, \* auth/stdio.ts: the process-wide session
  clientCache,  \* client-resolver.ts: API key -> client object (0: no entry)
  clients,      \* the OpenWeatherAPI objects constructed so far, by identity
  inv,          \* the tool invocations in progress
  started,      \* number of invocations begun
  input,        \* location-parser.ts: the string handed to parseLocation
  parsed,       \* location-parser.ts: what parseLocation returned
  request,      \* auth/http.ts: the request the connection was opened with
  authenticated, \* auth/http.ts: what the authenticator returned or threw
  emitter,      \* main.ts: the tool whose handler built the document
  upstream,     \* main.ts: what the client's fetch resolved with
  emitted,      \* main.ts: the entries of the document the handler returns
  unitsHistory, \* per API key: the units the calls of configureClientForLocation supplied
  configures    \* number of calls of configureClientForLocation made on its own

serverVars == <<phase, transport, envKey, stdioSession, clientCache, clients, inv, started>>

parserVars == <<input, parsed>>

authVars == <<request, authenticated>>

formatVars == <<emitter, upstream, emitted>>

configVars == <<unitsHistory, configures>>

vars == <<serverVars, parserVars, authVars, formatVars, configVars>>

\* no call has supplied units: a new client is metric
NoHistory == [k \in ApiKeys |-> [supplied |-> "metric", returned |-> "metric"]]

\* no fetch has resolved
NoUpstream == [days |-> 0, series |-> <<>>, current |-> <<>>, minutely |-> <<>>,
               hourly |-> <<>>, daily |-> <<>>, alerts |-> <<>>]

\* no connection has been opened
NoRequest == [variant |-> "", authType |-> "", hasCredentials |-> FALSE,
              token |-> NoKey, username |-> NoKey, apiKey |-> NoKey]

\* the authenticator has not been called
NoAuth == [ok |-> FALSE, session |-> NoSession, error |-> NoError]

\* parseLocation has not been called
NotParsed == [type |-> "", latitude |-> 0, longitude |-> 0, city |-> <<>>]

NoTool == Tool("", "", FALSE, "")

NoFetch == [location |-> NoLocation, units |-> None]

\* no document has been returned
NoDocument == [temperature |-> "", wind |-> "", visibility |-> ""]

\* the document of a handler that does not label units this way
UnlabelledDocument == [temperature |-> "-", wind |-> "-", visibility |-> "-"]

\* getTemperatureUnit; an omitted argument takes the default "metric"
getTemperatureUnit(units) ==
  CASE units = "imperial" -> "F"
    [] units = "standard" -> "K"
    [] OTHER -> "C"

\* formatCurrentWeather: the unit labels of the document it builds
formatCurrentWeather(units) ==
  [temperature |-> getTemperatureUnit(units),
   wind |-> IF units = "imperial" THEN "mph" ELSE "m/s",
   visibility |-> IF units = "imperial" THEN "mi" ELSE "km"]

\* formatWeatherForecast: the unit labels of each entry (it has no visibility)
formatWeatherForecast(units) ==
  [temperature |-> getTemperatureUnit(units),
   wind |-> IF units = "imperial" THEN "mph" ELSE "m/s",
   visibility |-> "-"]

\* formatHourlyForecast: the unit labels of an hour that has a visibility
formatHourlyForecast(units) ==
  [temperature |-> getTemperatureUnit(units),
   wind |-> IF units = "imperial" THEN "mph" ELSE "m/s",
   visibility |-> IF units = "imperial" THEN "mi" ELSE "km"]

\* the document a handler returns, as far as it labels units
DocumentOf(tool, args) ==
  CASE tool.name = "get-current-weather" -> formatCurrentWeather(args.units)
    [] tool.name = "get-weather-forecast" -> formatWeatherForecast(args.units)
    [] tool.name = "get-hourly-forecast" -> formatHourlyForecast(args.units)
    [] OTHER -> UnlabelledDocument

IdleSlot ==
  [pc |-> "idle", tool |-> NoTool, args |-> Args(<<>>, None, 0, 0),
   session |-> NoSession, client |-> 0, fetch |-> NoFetch, err |-> NoError,
   result |-> NoResult, document |-> NoDocument, calls |-> 0, errLogs |-> 0,
   logged |-> <<>>]

Init ==
  /\ phase = "boot"
  /\ \E env \in Environments : transport = env[1] /\ envKey = env[2]
  /\ stdioSession = NoSession
  /\ clientCache = [k \in ApiKeys |-> 0]
  /\ clients = <<>>
  /\ inv = [i \in Invocations |-> IdleSlot]
  /\ started = 0
  /\ input = <<>>
  /\ parsed = NotParsed
  /\ request = NoRequest
  /\ authenticated = NoAuth
  /\ emitter = ""
  /\ upstream = NoUpstream
  /\ emitted = <<>>
  /\ unitsHistory = NoHistory
  /\ configures = 0

\* initializeStdioAuth: TRUE when it returns, FALSE when it throws
StdioAuthOk(key) == key # NoKey /\ key.len >= 32

\* variant: the server starts whether or not the initialisation threw
StartServer_IgnoreFailure ==
  /\ phase = "boot"
  /\ phase' = "serving"
  /\ IF transport = "stdio" /\ StdioAuthOk(envKey)
       THEN stdioSession' = Session(envKey)
       ELSE UNCHANGED stdioSession
  /\ UNCHANGED <<transport, envKey, clientCache, clients, inv, started>>
  /\ UNCHANGED <<parserVars, authVars, formatVars, configVars>>

\* startServer, and the process.exit(1) of its catch
StartServer ==
  /\ phase = "boot"
  /\ IF transport = "stdio"
       THEN IF StdioAuthOk(envKey)
              THEN phase' = "serving" /\ stdioSession' = Session(envKey)
              ELSE phase' = "exited" /\ UNCHANGED stdioSession
       ELSE phase' = "serving" /\ UNCHANGED stdioSession
  /\ UNCHANGED <<transport, envKey, clientCache, clients, inv, started>>
  /\ UNCHANGED <<parserVars, authVars, formatVars, configVars>>

\* variant: the catch block translates without logging
Failed_NoLog(slot, e) ==
  [slot EXCEPT !.pc = "failed", !.err = e,
               !.result = Translate(slot.tool, slot.args, e)]

\* the catch block: one error log entry with the message, then the
\* translated error
Failed(slot, e) ==
  [slot EXCEPT !.pc = "failed", !.err = e, !.errLogs = @ + 1,
               !.logged = MessageOf(e),
               !.result = Translate(slot.tool, slot.args, e)]

\* variant: the handler yields between the configuration and the call
Invoke_YieldAfterConfigure(i, tool, args, session) ==
  /\ phase = "serving"
  /\ inv[i].pc = "idle"
  /\ started < MaxCalls
  /\ started' = started + 1
  /\ LET slot == [IdleSlot EXCEPT !.tool = tool, !.args = args, !.session = session]
         got == getOpenWeatherClient(session, stdioSession, clientCache, clients)
         cfg == ConfigureFor(tool, args, got.heap, got.client)
     IN IF ~got.ok
          THEN /\ inv' = [inv EXCEPT ![i] = Failed(slot, got.error)]
               /\ UNCHANGED <<clientCache, clients>>
        ELSE IF ~cfg.ok
          THEN /\ inv' = [inv EXCEPT ![i] = Failed([slot EXCEPT !.client = got.client], cfg.error)]
               /\ clientCache' = got.cache
               /\ clients' = got.heap
        ELSE /\ inv' = [inv EXCEPT ![i] =
                          [slot EXCEPT !.pc = "configured", !.client = got.client]]
             /\ clientCache' = got.cache
             /\ clients' = cfg.heap
  /\ UNCHANGED <<phase, transport, envKey, stdioSession>>
  /\ UNCHANGED <<parserVars, authVars, formatVars, configVars>>

\* a handler from its entry to its await: client resolution, configuration
\* and the call of the provider client's fetch method
Invoke(i, tool, args, session) ==
  /\ phase = "serving"
  /\ inv[i].pc = "idle"
  /\ started < MaxCalls
  /\ started' = started + 1
  /\ LET slot == [IdleSlot EXCEPT !.tool = tool, !.args = args, !.session = session]
         got == getOpenWeatherClient(session, stdioSession, clientCache, clients)
         cfg == ConfigureFor(tool, args, got.heap, got.client)
     IN IF ~got.ok
          THEN /\ inv' = [inv EXCEPT ![i] = Failed(slot, got.error)]
               /\ UNCHANGED <<clientCache, clients>>
        ELSE IF ~cfg.ok
          THEN /\ inv' = [inv EXCEPT ![i] = Failed([slot EXCEPT !.client = got.client], cfg.error)]
               /\ clientCache' = got.cache
               /\ clients' = got.heap
        ELSE /\ inv' = [inv EXCEPT ![i] =
                          [slot EXCEPT !.pc = "issued", !.client = got.client, !.calls = @ + 1]]
             /\ clientCache' = got.cache
             /\ clients' = cfg.heap
  /\ UNCHANGED <<phase, transport, envKey, stdioSession>>
  /\ UNCHANGED <<parserVars, authVars, formatVars, configVars>>

\* the location an invocation's own arguments configure
ConfiguredLocation(tool, args) ==
  ConfigureFor(tool, args, <<NewClient(NoKey)>>, 1).heap[1].location

\* variant: the request is built from the invocation's own arguments
UpstreamRead_OwnArguments(i) ==
  /\ inv[i].pc = "issued"
  /\ inv' = [inv EXCEPT ![i].pc = "inflight",
                        ![i].fetch = [location |-> ConfiguredLocation(inv[i].tool, inv[i].args),
                                      units |-> clients[inv[i].client].units]]
  /\ UNCHANGED <<phase, transport, envKey, stdioSession, clientCache, clients, started>>
  /\ UNCHANGED <<parserVars, authVars, formatVars, configVars>>

\* the provider client builds its request from the configuration the client
\* object holds when it gets to it
UpstreamRead(i) ==
  /\ inv[i].pc = "issued"
  /\ inv' = [inv EXCEPT ![i].pc = "inflight",
                        ![i].fetch = [location |-> clients[inv[i].client].location,
                                      units |-> clients[inv[i].client].units]]
  /\ UNCHANGED <<phase, transport, envKey, stdioSession, clientCache, clients, started>>
  /\ UNCHANGED <<parserVars, authVars, formatVars, configVars>>

\* the awaited promise resolves and the handler formats and returns
UpstreamResolve(i) ==
  /\ inv[i].pc = "inflight"
  /\ inv' = [inv EXCEPT ![i].pc = "done", ![i].result = Success,
                        ![i].document = DocumentOf(inv[i].tool, inv[i].args)]
  /\ UNCHANGED <<phase, transport, envKey, stdioSession, clientCache, clients, started>>
  /\ UNCHANGED <<parserVars, authVars, formatVars, configVars>>

\* variant: a rejected call is issued once more before the handler gives up
UpstreamReject_Retry(i, e) ==
  /\ inv[i].pc = "inflight"
  /\ inv' = [inv EXCEPT ![i] = IF inv[i].calls < 2
                                 THEN [inv[i] EXCEPT !.pc = "issued", !.calls = @ + 1,
                                                     !.fetch = NoFetch]
                                 ELSE Failed(inv[i], e)]
  /\ UNCHANGED <<phase, transport, envKey, stdioSession, clientCache, clients, started>>
  /\ UNCHANGED <<parserVars, authVars, formatVars, configVars>>

\* the awaited promise rejects, or the payload makes the formatting throw
UpstreamReject(i, e) ==
  /\ inv[i].pc = "inflight"
  /\ inv' = [inv EXCEPT ![i] = Failed(inv[i], e)]
  /\ UNCHANGED <<phase, transport, envKey, stdioSession, clientCache, clients, started>>
  /\ UNCHANGED <<parserVars, authVars, formatVars, configVars>>

\* variant: a result waits for the calls of the other invocations
Deliver_AfterOthers(i) ==
  /\ inv[i].pc \in {"done", "failed"}
  /\ \A j \in Invocations \ {i} : inv[j].pc \notin {"issued", "inflight"}
  /\ inv' = [inv EXCEPT ![i] = IdleSlot]
  /\ UNCHANGED <<phase, transport, envKey, stdioSession, clientCache, clients, started>>
  /\ UNCHANGED <<parserVars, authVars, formatVars, configVars>>

\* the result or the error reaches the caller
Deliver(i) ==
  /\ inv[i].pc \in {"done", "failed"}
  /\ inv' = [inv EXCEPT ![i] = IdleSlot]
  /\ UNCHANGED <<phase, transport, envKey, stdioSession, clientCache, clients, started>>
  /\ UNCHANGED <<parserVars, authVars, formatVars, configVars>>

\* the session FastMCP hands to execute: none on stdio (no authenticator is
\* registered), the authenticator's result on the HTTP transport
HandlerSessions ==
  IF transport = "stdio" THEN {NoSession} ELSE {Session(k) : k \in ApiKeys}

\* one caller that waits for each result before its next request
Next ==
  \/ StartServer
  \/ \E tool \in Tools, session \in HandlerSessions :
       \E args \in ArgsOf(tool) : Invoke(1, tool, args, session)
  \/ UpstreamRead(1)
  \/ UpstreamResolve(1)
  \/ \E e \in UpstreamErrors \cup {FormatError} : UpstreamReject(1, e)
  \/ Deliver(1)

Spec == Init /\ [][Next]_vars

\* one handler of each shape, for the runs with overlapping invocations
RaceTools == {t \in Tools : t.name \in {"get-current-weather", "get-weather-alerts",
                                         "get-onecall-weather"}}

RaceArgsOf(tool) ==
  {a \in ArgsOf(tool) : /\ a.location \in {<<>>, Loc57, LocRome}
                         /\ a.units \in {None, "imperial"}
                         /\ (a.location = <<>> => a.latitude # 0)}

RaceErrors == {Err(<<"city not found">>)}

\* several callers whose invocations overlap
NextConcurrent ==
  \/ StartServer
  \/ \E i \in Invocations, tool \in RaceTools, session \in HandlerSessions :
       \E args \in RaceArgsOf(tool) : Invoke(i, tool, args, session)
  \/ \E i \in Invocations : UpstreamRead(i)
  \/ \E i \in Invocations : UpstreamResolve(i)
  \/ \E i \in Invocations, e \in RaceErrors : UpstreamReject(i, e)
  \/ \E i \in Invocations : Deliver(i)

SpecConcurrent == Init /\ [][NextConcurrent]_vars

\* the awaited promise of invocation i settles, one way or the other
Settle(i) == UpstreamResolve(i) \/ \E e \in RaceErrors : UpstreamReject(i, e)

\* the upstream call of invocation 2 returns and the event loop runs its
\* continuations; nothing is assumed of the call of invocation 1, which may
\* never return
SpecHung ==
  /\ Init /\ [][NextConcurrent]_vars
  /\ WF_vars(UpstreamRead(2)) /\ WF_vars(Settle(2)) /\ WF_vars(Deliver(2))

\* ------------------------------------------- the resolver called on its own
\* initializeStdioAuth, when it does not throw
InitializeStdioAuth ==
  /\ StdioAuthOk(envKey)
  /\ stdioSession' = Session(envKey)
  /\ UNCHANGED <<phase, transport, envKey, clientCache, clients, inv, started>>
  /\ UNCHANGED <<parserVars, authVars, formatVars, configVars>>

clearStdioSession ==
  /\ stdioSession' = NoSession
  /\ UNCHANGED <<phase, transport, envKey, clientCache, clients, inv, started>>
  /\ UNCHANGED <<parserVars, authVars, formatVars, configVars>>

\* one call of getOpenWeatherClient(session); slot 1 records the argument and
\* what the call returned or threw
Resolve(session) ==
  /\ started < MaxResolves
  /\ started' = started + 1
  /\ LET got == getOpenWeatherClient(session, stdioSession, clientCache, clients)
     IN /\ inv' = [inv EXCEPT ![1] =
                     [IdleSlot EXCEPT !.pc = IF got.ok THEN "resolved" ELSE "threw",
                                      !.session = session,
                                      !.client = got.client,
                                      !.err = got.error]]
        /\ clientCache' = got.cache
        /\ clients' = got.heap
  /\ UNCHANGED <<phase, transport, envKey, stdioSession>>
  /\ UNCHANGED <<parserVars, authVars, formatVars, configVars>>

NextResolver ==
  \/ InitializeStdioAuth
  \/ clearStdioSession
  \/ \E session \in SessionArgs : Resolve(session)

SpecResolver == Init /\ [][NextResolver]_vars

\* ------------------------------ configureClientForLocation called on its own
\* one call of configureClientForLocation(client, location, units) on the
\* client the last call of getOpenWeatherClient returned; slot 1 records the
\* arguments and whether the call returned or threw
Configure(location, units) ==
  /\ inv[1].pc \in {"resolved", "configured", "rejected"}
  /\ configures < MaxConfigures
  /\ configures' = configures + 1
  /\ \E cfg \in {configureClientForLocation(clients, inv[1].client, location, units)} :
       /\ clients' = cfg.heap
       /\ inv' = [inv EXCEPT ![1].pc = IF cfg.ok THEN "configured" ELSE "rejected",
                             ![1].args = Args(location, units, 0, 0),
                             ![1].err = cfg.error]
       /\ unitsHistory' =
            [unitsHistory EXCEPT ![clients[inv[1].client].key] =
               [supplied |-> IF units # None THEN units ELSE @.supplied,
                returned |-> IF units # None /\ cfg.ok THEN units ELSE @.returned]]
  /\ UNCHANGED <<phase, transport, envKey, stdioSession, clientCache, started>>
  /\ UNCHANGED <<parserVars, authVars, formatVars>>

\* a coordinate pair, one with a zero, a blank string and a city
ConfigureLocations == {Loc57, Loc00, LocBlank, LocRome}

NextConfigure ==
  \/ \E session \in {Session(k) : k \in ApiKeys} : Resolve(session)
  \/ \E location \in ConfigureLocations, units \in UnitArgs : Configure(location, units)

SpecConfigure == Init /\ [][NextConfigure]_vars

\* ------------------------------------------------------------------ claims
\* the API key an invocation's client is looked up by
KeyOf(i) == EffectiveSession(inv[i].session, stdioSession).apiKey

Constructed(k) == {c \in DOMAIN clients : clients[c].key = k}

C1_State ==
  /\ \A k \in ApiKeys :
       /\ Cardinality(Constructed(k)) <= 1
       /\ clientCache[k] # 0 => clients[clientCache[k]].key = k
  /\ \A i \in Invocations :
       inv[i].client # 0 => inv[i].client = clientCache[KeyOf(i)]

C1_Step == \A k \in ApiKeys : clientCache[k] # 0 => clientCache'[k] = clientCache[k]

\* C1: over any interleaving of tool invocations, at most one client is ever
\* constructed per API key, every invocation holds the client cached for its
\* effective session's key, and a cache entry, once made, is never removed
\* or pointed at another client.
C1_SameClientPerKey == []C1_State /\ [][C1_Step]_vars

\* two overlapping invocations hold one and the same client, constructed once
C1_Witness ==
  /\ inv[1].pc # "idle" /\ inv[2].pc # "idle"
  /\ inv[1].client # 0 /\ inv[1].client = inv[2].client
  /\ Len(clients) = 1

\* C2: whenever the location argument parses to coordinates (zero components
\* included), configureClientForLocation raises no invalid-location error and
\* the client's location is that coordinate pair.
C2_CoordinatesConfigured ==
  \A i \in Invocations :
    inv[i].tool.family = "location" =>
      \A p \in {parseLocation(inv[i].args.location)} :
        p.type = "coordinates" =>
          /\ inv[i].err # InvalidLocationError
          /\ inv[i].pc = "issued" =>
               clients[inv[i].client].location = ByCoordinates(p.latitude, p.longitude)

UnitsSupplied(i) == inv[i].tool.hasUnits /\ inv[i].args.units # None

\* C3: an invocation that supplies no units has its upstream request built
\* with the metric unit system, whatever earlier invocations on the same
\* credential asked for.
C3_MetricWhenUnitsOmitted ==
  \A i \in Invocations :
    (inv[i].fetch # NoFetch /\ ~UnitsSupplied(i)) => inv[i].fetch.units = "metric"

\* C4: the request of an invocation is built from the location that the one
\* client cached for its credential holds at that moment, which is the last
\* location any invocation on that credential configured and need not be the
\* invocation's own.
C4_FetchReadsSharedClient ==
  [][\A i \in Invocations :
       (inv[i].pc = "issued" /\ inv'[i].pc = "inflight") =>
          inv'[i].fetch.location = clients[clientCache[KeyOf(i)]].location]_vars

\* A's request carries the location B configured between A's configuration
\* and A's fetch
C4_Witness ==
  /\ inv[1].pc = "inflight" /\ inv[2].pc \in {"issued", "inflight"}
  /\ inv[1].client = inv[2].client
  /\ ConfiguredLocation(inv[1].tool, inv[1].args) # ConfiguredLocation(inv[2].tool, inv[2].args)
  /\ inv[1].fetch.location = ConfiguredLocation(inv[2].tool, inv[2].args)

\* C5: an invocation of a location handler whose location argument trims to
\* the empty string fails with the invalid-location error, and no upstream
\* call is issued during it.
C5_EmptyLocationFailsFast ==
  \A i \in Invocations :
    (inv[i].tool.family = "location" /\ Trim(inv[i].args.location) = <<>>) =>
       /\ inv[i].pc = "failed"
       /\ inv[i].err = InvalidLocationError
       /\ inv[i].result = Generic(inv[i].tool, InvalidLocationError)
       /\ inv[i].calls = 0
       /\ inv[i].fetch = NoFetch

C5_Witness ==
  /\ inv[1].tool.name = "get-current-weather"
  /\ inv[1].args.location = LocBlank
  /\ inv[1].pc = "failed"
  /\ inv[1].client # 0
  /\ inv[1].calls = 0

\* C6: a call of getOpenWeatherClient throws the no-session error exactly when
\* its session argument is absent and no stdio session is established, and a
\* call that throws constructs no client and leaves the cache as it was.
C6_NoSessionError ==
  [][started' = started + 1 =>
       /\ (inv'[1].pc = "threw") =
            (inv'[1].session = NoSession /\ stdioSession = NoSession)
       /\ inv'[1].pc = "threw" =>
            /\ inv'[1].err = NoSessionError
            /\ clientCache' = clientCache
            /\ clients' = clients]_vars

\* a call throws although clients are cached
C6_Witness ==
  /\ inv[1].pc = "threw"
  /\ inv[1].session = NoSession
  /\ stdioSession = NoSession
  /\ Len(clients) > 0

\* C7: a call with an explicit session returns the client of that session's
\* key and neither creates nor returns a client for any other key, in
\* particular the stdio session's; with no explicit session the client of the
\* stdio session's key is returned.
C7_ExplicitSessionFirst ==
  [][started' = started + 1 =>
       /\ inv'[1].session # NoSession =>
            /\ inv'[1].pc = "resolved"
            /\ inv'[1].client = clientCache'[inv'[1].session.apiKey]
            /\ clients'[inv'[1].client].key = inv'[1].session.apiKey
            /\ \A k \in ApiKeys \ {inv'[1].session.apiKey} :
                 clientCache'[k] = clientCache[k] /\ Constructed(k)' = Constructed(k)
       /\ (inv'[1].session = NoSession /\ stdioSession # NoSession) =>
            /\ inv'[1].pc = "resolved"
            /\ clients'[inv'[1].client].key = stdioSession.apiKey]_vars

\* both sessions exist with different keys and the explicit one decided
C7_Witness ==
  /\ stdioSession = Session(KeyA)
  /\ inv[1].session = Session(KeyB)
  /\ inv[1].pc = "resolved"
  /\ clients[inv[1].client].key = KeyB
  /\ clientCache[KeyA] = 0

\* C8: in the handlers that take a location string, a failure whose message
\* contains "city not found" becomes the location-not-found error naming the
\* requested location; otherwise one containing "Invalid API key" becomes the
\* credential error; every other failure becomes "Failed to {action}:"
\* followed by the original message, or by "Unknown error" for a value that
\* is not an Error.
C8_ErrorTranslation ==
  \A i \in Invocations :
    (inv[i].pc = "failed" /\ inv[i].tool.family \in {"location", "query"}) =>
      LET e == inv[i].err
          r == inv[i].result
      IN /\ r.kind \in {"notFound", "invalidKey", "generic"}
         /\ IF e.isError /\ Includes(e.message, "city not found")
              THEN r.kind = "notFound" /\ r.subject = inv[i].args.location
            ELSE IF e.isError /\ Includes(e.message, "Invalid API key")
              THEN r = InvalidKey
            ELSE /\ r.kind = "generic"
                 /\ r.text = <<"Failed to", inv[i].tool.action, ":">>
                               \o (IF e.isError THEN e.message ELSE <<"Unknown error">>)

\* a message with both phrases is reported as location not found
C8_Witness ==
  /\ inv[1].pc = "failed"
  /\ inv[1].tool.name = "get-weather-alerts"
  /\ inv[1].err = Err(<<"city not found", "Invalid API key">>)
  /\ inv[1].result.kind = "notFound"

MentionsInvalidCoordinates(i) ==
  /\ inv[i].pc = "failed"
  /\ inv[i].err.isError
  /\ Includes(inv[i].err.message, "Invalid coordinates")

C10_State ==
  \A i \in Invocations :
    /\ inv[i].calls <= 1
    /\ inv[i].pc \in {"issued", "inflight", "done"} => inv[i].calls = 1
    /\ (inv[i].pc = "failed" /\ inv[i].fetch # NoFetch) => inv[i].calls = 1

C10_Step ==
  \A i \in Invocations :
    /\ inv[i].pc = "inflight" => inv'[i].pc \in {"inflight", "done", "failed"}
    /\ inv[i].pc = "failed" => inv'[i].pc \in {"failed", "idle"}

\* C10: an invocation issues at most one upstream call; one that succeeds has
\* issued exactly one; when the call fails the invocation goes on to fail to
\* the caller and issues no second call.
C10_AtMostOneUpstreamCall == []C10_State /\ [][C10_Step]_vars

\* get-onecall-weather fails after its single upstream call was rejected
C10_Witness ==
  /\ inv[1].tool.name = "get-onecall-weather"
  /\ inv[1].pc = "failed"
  /\ inv[1].fetch # NoFetch
  /\ inv[1].calls = 1

\* ------------------------------------------------ the parser called on its own
\* every string over these characters up to MaxLen characters
ParserAlphabet == {"9", "1", "-", ".", ",", " ", "x"}

ShortStrings == UNION {[1..n -> ParserAlphabet] : n \in 0..MaxLen}

\* numbers written as sign, whole part and fraction, around the range limits
Signs == {<<>>, <<"-">>}

WholeParts ==
  {<<"0">>, <<"4", "5">>, <<"9", "0">>, <<"9", "1">>, <<"1", "8", "0">>, <<"1", "8", "1">>}

FractionParts == {<<>>, <<".", "0">>, <<".", "0", "1">>}

NumberTexts == {sg \o w \o f : sg \in Signs, w \in WholeParts, f \in FractionParts}

PairSeparators == {<<",">>, <<" ">>, <<",", " ">>}

BarePairs == {a \o sep \o b : a \in NumberTexts, b \in NumberTexts, sep \in PairSeparators}

\* the spellings of the two labels
LabelStyles ==
  { << <<"l", "a", "t", ":">>, <<"l", "o", "n", ":">> >>,
    << <<"L", "A", "T", " ">>, <<"L", "o", "n", ":", " ">> >>,
    << <<"l", "a", "t">>, <<"l", "o", "n">> >> }

LabelledPairs ==
  {st[1] \o a \o <<",", " ">> \o st[2] \o b :
     a \in NumberTexts, b \in NumberTexts, st \in LabelStyles}

\* the strings of location-parser.test.ts that are not pairs, and a few more
OtherStrings ==
  { <<"1", "2", "3", "4", "5">>,
    <<"l", "a", "t", ":", "4", "0", ".", "7">>,
    <<"l", "a", "t", ":", "4", "0", ".", "7", ",", "i", "n", "v", "a", "l", "i", "d">>,
    <<"l", "a", "t", ":", "4", "0", ",", "l", "o", "n", ":", "x">>,
    <<"l", "o", "n", ":", "1", ",", "l", "a", "t", ":", "2">>,
    <<"N", "e", "w", " ", " ", " ", "Y", "o", "r", "k">>,
    <<"L", "o", "n", "d", "o", "n", ",", " ", "U", "K">>,
    <<"P", "a", "r", "i", "s">>,
    <<"a", "t", " ", "l", "a", "t", " ", "5", " ", "l", "o", "n", " ", "6", " ", "x">>,
    <<"4", "0", ".", "7", "1", "2", "8", ",", "-", "7", "4", ".", "0", "0", "6", "0">>,
    <<"9", "0", ".", "0", "0", "0", "1", ",", "0">>,
    <<"\t", " ">> }

\* leading and trailing whitespace around an input
Padding == {<<>>, <<" ", " ">>}

ParserInputs ==
  ShortStrings
    \cup {l \o t \o r : l \in Padding, r \in Padding,
                        t \in BarePairs \cup LabelledPairs \cup OtherStrings}

InitParser ==
  /\ phase = "boot"
  /\ transport = "stdio"
  /\ envKey = NoKey
  /\ stdioSession = NoSession
  /\ clientCache = [k \in ApiKeys |-> 0]
  /\ clients = <<>>
  /\ inv = [i \in Invocations |-> IdleSlot]
  /\ started = 0
  /\ input \in ParserInputs
  /\ parsed = NotParsed
  /\ request = NoRequest
  /\ authenticated = NoAuth
  /\ emitter = ""
  /\ upstream = NoUpstream
  /\ emitted = <<>>
  /\ unitsHistory = NoHistory
  /\ configures = 0

\* one call parseLocation(input)
ParseLocation ==
  /\ parsed = NotParsed
  /\ parsed' = parseLocation(input)
  /\ UNCHANGED <<serverVars, authVars, formatVars, configVars, input>>

NextParser == ParseLocation

\* a call of parseLocation returns
SpecParser == InitParser /\ [][NextParser]_vars /\ WF_vars(ParseLocation)

\* ------------------------------------------------- claims about the parser
\* every character of s[a..b] is in the class
AllIn(s, a, b, class) == \A k \in a..b : s[k] \in class

\* c is s without its leading and trailing whitespace, nothing else changed
IsOuterTrimOf(c, s) ==
  /\ c = <<>> \/ (c[1] \notin Space /\ c[Len(c)] \notin Space)
  /\ \E a \in 0..(Len(s) - Len(c)) :
       /\ AllIn(s, 1, a, Space)
       /\ SubSeq(s, a + 1, a + Len(c)) = c
       /\ AllIn(s, a + Len(c) + 1, Len(s), Space)

\* s[a..b] is an optionally signed run of digits with an optional fraction
\* of at least one digit
IsNumber(s, a, b) ==
  \E q \in {IF a <= b /\ s[a] = "-" THEN a + 1 ELSE a} :
    \/ q <= b /\ AllIn(s, q, b, Digit)
    \/ \E dot \in (q + 1)..(b - 1) :
         /\ s[dot] = "."
         /\ AllIn(s, q, dot - 1, Digit)
         /\ AllIn(s, dot + 1, b, Digit)

\* the number s[a..b] writes
NumberValue(s, a, b) ==
  The({ The({ (IF q > a THEN 0 - 1 ELSE 1)
                * (DigitsValue(s, q, dot) * Scale + FractionValue(s, dot + 1, b + 1))
              : dot \in {IF \E k \in q..b : s[k] = "."
                           THEN CHOOSE k \in q..b : s[k] = "." ELSE b + 1} })
        : q \in {IF s[a] = "-" THEN a + 1 ELSE a} })

\* t is exactly two numbers separated by commas and/or whitespace: the two
\* numbers, for every way of reading t so
BarePairValues(t) ==
  UNION {{<<NumberValue(t, 1, i), NumberValue(t, j, Len(t))>> :
            j \in {j \in (i + 2)..Len(t) : /\ AllIn(t, i + 1, j - 1, CommaSpace)
                                            /\ IsNumber(t, j, Len(t))}} :
         i \in {i \in 1..Len(t) : IsNumber(t, 1, i)}}

\* t is a number labelled lat and a number labelled lon, in any letter case
LabelledPairValues(t) ==
  IF ~WordAt(t, 1, <<"l", "a", "t">>) THEN {} ELSE
  UNION {UNION {UNION {{<<NumberValue(t, a, b), NumberValue(t, d, Len(t))>> :
                          d \in {d \in (c + 3)..Len(t) :
                                   /\ AllIn(t, c + 3, d - 1, ColonSpace)
                                   /\ IsNumber(t, d, Len(t))}} :
                       c \in {c \in (b + 2)..Len(t) :
                                /\ AllIn(t, b + 1, c - 1, CommaSpace)
                                /\ WordAt(t, c, <<"l", "o", "n">>)}} :
                b \in {b \in a..Len(t) : IsNumber(t, a, b)}} :
         a \in {a \in 4..Len(t) : AllIn(t, 4, a - 1, ColonSpace)}}

InGeographicRange(v) ==
  /\ (0 - 90) * Scale <= v[1] /\ v[1] <= 90 * Scale
  /\ (0 - 180) * Scale <= v[2] /\ v[2] <= 180 * Scale

\* a lon label followed by a number somewhere in s
HasLabelledLon(s) ==
  \E k \in 1..Len(s) :
    /\ WordAt(s, k, <<"l", "o", "n">>)
    /\ \E d \in (k + 3)..Len(s) :
         /\ AllIn(s, k + 3, d - 1, ColonSpace)
         /\ s[d] \in Digit \/ (s[d] = "-" /\ d < Len(s) /\ s[d + 1] \in Digit)

LatWithoutLon(s) ==
  /\ \E k \in 1..Len(s) : WordAt(s, k, <<"l", "a", "t">>)
  /\ ~HasLabelledLon(s)

SingleNumber(s) == s # <<>> /\ IsNumber(s, 1, Len(s))

\* C11: parseLocation returns a descriptor for every input string; a
\* coordinates descriptor has its latitude within [-90, 90] and its longitude
\* within [-180, 180]; a single bare number, and a lat label with no lon
\* label and number, are never coordinates.
C11_State ==
  parsed # NotParsed =>
    /\ parsed.type \in {"coordinates", "city"}
    /\ parsed.type = "coordinates" =>
         InGeographicRange(<<parsed.latitude, parsed.longitude>>)
    /\ (SingleNumber(Trim(input)) \/ LatWithoutLon(input)) =>
         parsed.type # "coordinates"

C11_ParserTotalInRange == []C11_State /\ <>(parsed # NotParsed)

C11_Witness ==
  /\ parsed.type = "city"
  /\ LatWithoutLon(input)
  /\ \E k \in 1..Len(input) : input[k] \in Digit

\* C12: an input that, trimmed, is exactly two numbers separated by commas
\* and/or whitespace, or a lat/lon labelled pair in any letter case, with
\* both numbers in range (limits included), parses to coordinates whose
\* latitude is the first number and whose longitude is the second.
C12_PairsParseToCoordinates ==
  parsed # NotParsed =>
    \A v \in BarePairValues(Trim(input)) \cup LabelledPairValues(Trim(input)) :
      InGeographicRange(v) => parsed = Coordinates(v[1], v[2])

C12_Witness ==
  /\ parsed = Coordinates((0 - 90) * Scale, 180 * Scale)
  /\ LabelledPairValues(Trim(input)) # {}
  /\ input # Trim(input)

\* C13: whenever parseLocation does not return coordinates it returns a city
\* descriptor whose city is the input with only its leading and trailing
\* whitespace removed (the empty string for an empty or blank input).
C13_CityIsTrimmedInput ==
  (parsed # NotParsed /\ parsed.type # "coordinates") =>
     /\ parsed.type = "city"
     /\ IsOuterTrimOf(parsed.city, input)

C13_Witness ==
  /\ parsed.type = "city"
  /\ parsed.city # input
  /\ BarePairValues(parsed.city) # {}

\* ------------------------------------------------------- the authenticators
\* the three httpStreamAuthenticator sources: Basic, Bearer, environment
AuthVariants == {"basic", "bearer", "env"}

\* the first word of the Authorization header
AuthTypes == {"Basic", "basic", "Bearer", "Digest"}

toLowerCase(authType) ==
  CASE authType = "Basic" -> "basic" [] authType = "Bearer" -> "bearer"
    [] authType = "Digest" -> "digest" [] OTHER -> authType

\* the second word of the header: the string itself (a Bearer token) and the
\* user name and API key its base64 decoding splits into at the colon
CredentialWords ==
  {[token |-> t, username |-> d[1], apiKey |-> d[2]] :
     t \in {KeyShort, KeyB},
     d \in {<<NoKey, NoKey>>, <<KeyA, NoKey>>, <<KeyShort, KeyB>>, <<KeyA, KeyShort>>}}

\* request.headers.authorization: absent, a scheme alone, a scheme and a word
Headers ==
  {[authType |-> "", hasCredentials |-> FALSE, token |-> NoKey,
    username |-> NoKey, apiKey |-> NoKey]}
    \cup {[authType |-> t, hasCredentials |-> FALSE, token |-> NoKey,
           username |-> NoKey, apiKey |-> NoKey] : t \in AuthTypes}
    \cup {[authType |-> t, hasCredentials |-> TRUE, token |-> w.token,
           username |-> w.username, apiKey |-> w.apiKey] :
            t \in AuthTypes, w \in CredentialWords}

AuthError(msg) == [ok |-> FALSE, session |-> NoSession, error |-> Err(<<msg>>)]

AuthSession(key) == [ok |-> TRUE, session |-> Session(key), error |-> NoError]

\* variant: the length of the key is not looked at
httpStreamAuthenticator_NoLengthCheck(header) ==
  IF header.authType = ""
    THEN AuthError("Authorization header required")
  ELSE IF toLowerCase(header.authType) # "basic"
    THEN AuthError("Only Basic authentication is supported")
  ELSE IF ~header.hasCredentials
    THEN AuthError("Invalid authorization header format")
  ELSE The({ IF openWeatherApiKey = NoKey
               THEN AuthError("OpenWeatherMap API key is required")
             ELSE AuthSession(openWeatherApiKey)
             : openWeatherApiKey \in
                 {IF header.apiKey # NoKey THEN header.apiKey ELSE header.username} })

\* auth/http.ts: Basic authentication, the key as password or as user name
httpStreamAuthenticator(header) ==
  IF header.authType = ""
    THEN AuthError("Authorization header required")
  ELSE IF toLowerCase(header.authType) # "basic"
    THEN AuthError("Only Basic authentication is supported")
  ELSE IF ~header.hasCredentials
    THEN AuthError("Invalid authorization header format")
  ELSE The({ IF openWeatherApiKey = NoKey
               THEN AuthError("OpenWeatherMap API key is required")
             ELSE IF openWeatherApiKey.len < 32
               THEN AuthError("Invalid OpenWeatherMap API key format")
             ELSE AuthSession(openWeatherApiKey)
             : openWeatherApiKey \in
                 {IF header.apiKey # NoKey THEN header.apiKey ELSE header.username} })

\* the Bearer token authenticator
httpStreamAuthenticatorBearer(header) ==
  IF header.authType = ""
    THEN AuthError("Authorization header required")
  ELSE IF toLowerCase(header.authType) # "bearer"
    THEN AuthError("Only Bearer token authentication is supported")
  ELSE IF ~header.hasCredentials
    THEN AuthError("Invalid authorization header format")
  ELSE IF header.token = NoKey
    THEN AuthError("OpenWeatherMap API key is required")
  ELSE IF header.token.len < 32
    THEN AuthError("Invalid OpenWeatherMap API key format")
  ELSE AuthSession(header.token)

\* the authenticator that reads the environment's key and no header
httpStreamAuthenticatorEnv(key) ==
  IF key = NoKey
    THEN AuthError("OPENWEATHER_API_KEY environment variable is required")
  ELSE IF key.len < 32
    THEN AuthError("Invalid OPENWEATHER_API_KEY format")
  ELSE AuthSession(key)

\* every key a session or a cache entry can hold
Credentials == ApiKeys \cup {KeyShort}

InitAuth ==
  /\ phase = "boot"
  /\ transport \in {"stdio", "httpStream"}
  /\ envKey \in EnvKeys
  /\ stdioSession = NoSession
  /\ clientCache = [k \in Credentials |-> 0]
  /\ clients = <<>>
  /\ inv = [i \in Invocations |-> IdleSlot]
  /\ started = 0
  /\ input = <<>>
  /\ parsed = NotParsed
  /\ request = NoRequest
  /\ authenticated = NoAuth
  /\ emitter = ""
  /\ upstream = NoUpstream
  /\ emitted = <<>>
  /\ unitsHistory = NoHistory
  /\ configures = 0

\* a client connects: FastMCP calls the authenticator with the request and
\* keeps what it returns as the connection's session
Authenticate(variant, header) ==
  /\ transport = "httpStream"
  /\ phase = "serving"
  /\ inv[1].pc = "idle"
  /\ request' = [variant |-> variant, authType |-> header.authType,
                 hasCredentials |-> header.hasCredentials, token |-> header.token,
                 username |-> header.username, apiKey |-> header.apiKey]
  /\ authenticated' =
       CASE variant = "basic" -> httpStreamAuthenticator(header)
         [] variant = "bearer" -> httpStreamAuthenticatorBearer(header)
         [] variant = "env" -> httpStreamAuthenticatorEnv(envKey)
  /\ UNCHANGED <<serverVars, parserVars, formatVars, configVars>>

\* a tool call on the connection, with the session FastMCP hands to execute
CallTool(tool, args) ==
  IF transport = "stdio"
    THEN Invoke(1, tool, args, NoSession)
    ELSE authenticated.ok /\ Invoke(1, tool, args, authenticated.session)

AuthTools == {t \in Tools : t.name \in {"get-weather-alerts", "get-air-pollution"}}

NextAuth ==
  \/ StartServer
  \/ \E variant \in AuthVariants, header \in Headers : Authenticate(variant, header)
  \/ \E tool \in AuthTools : \E args \in RaceArgsOf(tool) : CallTool(tool, args)
  \/ UpstreamRead(1)
  \/ UpstreamResolve(1)
  \/ \E e \in RaceErrors : UpstreamReject(1, e)
  \/ Deliver(1)

SpecAuth == InitAuth /\ [][NextAuth]_vars

\* ------------------------------------------------ claims about the sessions
C15_State ==
  transport = "stdio" =>
    /\ StdioAuthOk(envKey) \/ phase # "serving"
    /\ phase = "exited" => ~StdioAuthOk(envKey)
    /\ phase # "serving" => started = 0
    /\ \A i \in Invocations :
         inv[i].pc # "idle" =>
           /\ stdioSession = Session(envKey)
           /\ StdioAuthOk(envKey)

C15_Step == stdioSession # NoSession => stdioSession' = stdioSession

\* C15: on the stdio transport the process-wide session exists whenever a
\* handler runs and is the one created at startup from the environment's
\* key: the server serves only after the initialisation succeeded, never
\* after it failed, and no step replaces or clears the session once set.
C15_StdioSessionStable == []C15_State /\ [][C15_Step]_vars

C15_Witness ==
  /\ transport = "stdio"
  /\ stdioSession = Session(envKey)
  /\ inv[1].pc = "done"
  /\ started = 2

\* the credential a request presents to the variant it meets
PresentedCredential(r) ==
  CASE r.variant = "basic" -> IF r.apiKey # NoKey THEN r.apiKey ELSE r.username
    [] r.variant = "bearer" -> r.token
    [] r.variant = "env" -> envKey

\* no credential, not the variant's scheme, or fewer than 32 characters
Unacceptable(r) ==
  \/ r.variant # "env" /\ (r.authType = "" \/ ~r.hasCredentials)
  \/ r.variant # "env" /\ toLowerCase(r.authType) # r.variant
  \/ PresentedCredential(r) = NoKey
  \/ PresentedCredential(r).len < 32

\* C14: every session an authenticator produces (the stdio initialisation,
\* the HTTP authenticator in its Basic, Bearer and environment variants)
\* carries a key of at least 32 characters; a missing credential, a wrong
\* scheme or a shorter credential yields an error and no session; so every
\* key the client cache holds after tool invocations has at least 32
\* characters.
C14_SessionsCarryLongKeys ==
  /\ stdioSession # NoSession => stdioSession.apiKey.len >= 32
  /\ authenticated.ok =>
       /\ authenticated.session.apiKey.len >= 32
       /\ authenticated.session.apiKey = PresentedCredential(request)
  /\ (request # NoRequest /\ Unacceptable(request)) =>
       /\ ~authenticated.ok
       /\ authenticated.session = NoSession
       /\ authenticated.error.isError
  /\ (transport = "stdio" /\ phase # "boot" /\ (envKey = NoKey \/ envKey.len < 32)) =>
       phase = "exited" /\ stdioSession = NoSession
  /\ \A i \in Invocations : inv[i].session # NoSession => inv[i].session.apiKey.len >= 32
  /\ \A k \in DOMAIN clientCache : clientCache[k] # 0 => k.len >= 32
  /\ \A c \in DOMAIN clients : clients[c].key.len >= 32

C14_Witness ==
  /\ request.variant = "basic"
  /\ request.username = KeyA
  /\ request.apiKey = NoKey
  /\ authenticated.ok
  /\ clientCache[KeyA] # 0
  /\ inv[1].pc = "done"

\* ----------------------------------------------- claims about the documents
\* the labels the claim gives for a unit system
ExpectedLabels(u) ==
  [temperature |-> CASE u = "metric" -> "C" [] u = "imperial" -> "F" [] u = "standard" -> "K",
   wind |-> IF u = "imperial" THEN "mph" ELSE "m/s",
   visibility |-> IF u = "imperial" THEN "mi" ELSE "km"]

\* the coordinates a location argument writes, if it writes a pair in range
WrittenCoordinates(location) ==
  {v \in BarePairValues(Trim(location)) \cup LabelledPairValues(Trim(location)) :
     InGeographicRange(v)}

\* C16: a get-current-weather invocation with a coordinate location and
\* units u configures the client with those coordinates and u, issues one
\* fetch, and returns a document labelled C, F or K for the temperature,
\* mph or m/s for the wind and mi or km for the visibility, according to u.
C16_CurrentWeatherEndToEnd ==
  \A i \in Invocations :
    (inv[i].tool.name = "get-current-weather" /\ inv[i].args.units # None) =>
      \A v \in WrittenCoordinates(inv[i].args.location) :
        /\ inv[i].pc \in {"issued", "inflight", "done", "failed"}
        /\ inv[i].err # InvalidLocationError
        /\ inv[i].calls = 1
        /\ inv[i].pc = "issued" =>
             /\ clients[inv[i].client].location = ByCoordinates(v[1], v[2])
             /\ clients[inv[i].client].units = inv[i].args.units
        /\ inv[i].pc = "done" => inv[i].document = ExpectedLabels(inv[i].args.units)

\* ---------------------------------------------- the documents of the tools
\* a JSON number and the JSON null
Number(n) == <<"number", n>>

Null == <<"null", 0>>

\* reading a property: nothing when it is undefined
Get(weather, field) == IF field \in DOMAIN weather THEN {Number(weather[field])} ELSE {}

\* undefined and 0 are the falsy values a numeric property can have
Falsy(x) == x \in {{}, {Number(0)}}

\* x || 0
OrZero(x) == IF Falsy(x) THEN {Number(0)} ELSE x

\* x || undefined
OrUndefined(x) == IF Falsy(x) THEN {} ELSE x

\* JSON.stringify of an object: a key whose value is undefined is left out
Stringify(object) == [k \in {f \in DOMAIN object : object[f] # {}} |-> The(object[k])]

\* the ways a handler writes an instant (seconds since the epoch)
EpochSeconds(t) == [format |-> "epoch", instant |-> t]

toISOString(t) == [format |-> "iso", instant |-> t]

\* toISOString().split('T')[0]: the date of the instant
toISODate(t) == [format |-> "iso-date", instant |-> t - (t % 86400)]

\* the text depends on the locale and time zone of the host
toLocaleString(t) == [format |-> "locale", instant |-> t]

formatDateTime(timestamp) == toLocaleString(timestamp)

\* Array.prototype.includes
includes(tags, tag) == \E i \in DOMAIN tags : tags[i] = tag

\* variant: 'moderate' is looked for first
severity_ModerateFirst(tags) ==
  IF includes(tags, "moderate") THEN "Medium"
  ELSE IF includes(tags, "severe") \/ includes(tags, "extreme") THEN "High"
  ELSE "Low"

\* get-weather-alerts: the severity of an alert
severity(tags) ==
  IF includes(tags, "severe") \/ includes(tags, "extreme") THEN "High"
  ELSE IF includes(tags, "moderate") THEN "Medium"
  ELSE "Low"

\* Array.prototype.slice(0, end) for end >= 0
Slice(S, end) == SubSeq(S, 1, IF end < Len(S) THEN end ELSE Len(S))

\* an element of an upstream series and an entry of a document
Item(times, weather, tags) == [times |-> times, weather |-> weather, tags |-> tags]

Entry(optional, times, level) ==
  [optional |-> optional, times |-> times, severity |-> level,
   description |-> "", direction |-> "", values |-> <<>>]

Directions == <<"N", "NNE", "NE", "ENE", "E", "ESE", "SE", "SSE",
                "S", "SSW", "SW", "WSW", "W", "WNW", "NW", "NNW">>

\* variant: the sector index is truncated
getWindDirection_Truncated(degrees) ==
  Directions[(((4 * (degrees % (360 * BearingParts))) \div (90 * BearingParts)) % 16) + 1]

\* getWindDirection: Math.round((degrees % 360) / 22.5) rounds a half upwards
getWindDirection(degrees) ==
  Directions[(((4 * (degrees % (360 * BearingParts)) + 45 * BearingParts)
                 \div (90 * BearingParts)) % 16) + 1]

\* variant: a rate of exactly 0.1 is still light
precipitationDescription_InclusiveLight(rain) ==
  IF rain = {} \/ The(rain) <= 0 THEN "No precipitation"
  ELSE IF 10 * The(rain) <= Scale THEN "Light rain"
  ELSE IF 2 * The(rain) < Scale THEN "Moderate rain"
  ELSE "Heavy rain"

\* get-minutely-forecast: precipitation_description; the rate is in 1/Scale
\* mm and a comparison with undefined is false
precipitationDescription(rain) ==
  IF rain = {} \/ The(rain) <= 0 THEN "No precipitation"
  ELSE IF 10 * The(rain) < Scale THEN "Light rain"
  ELSE IF 2 * The(rain) < Scale THEN "Moderate rain"
  ELSE "Heavy rain"

\* a property read as a plain number: nothing when it is undefined
Read(weather, field) == IF field \in DOMAIN weather THEN {weather[field]} ELSE {}

\* formatCurrentWeather: timestamp is dtRaw, the direction that of
\* weatherData.weather.wind.deg || 0
CurrentWeatherEntry(weatherData) ==
  [Entry(<<>>, [timestamp |-> EpochSeconds(weatherData.times.dt)], "") EXCEPT
     !.direction = getWindDirection(IF "deg" \in DOMAIN weatherData.weather
                                      THEN weatherData.weather.deg ELSE 0)]

\* get-weather-forecast: args.days || 5
requestedDays(days) == IF days = 0 THEN 5 * DayParts ELSE days

\* get-weather-forecast: the first requestedDays * 8 entries
limitedForecast(forecastData, days) ==
  Slice(forecastData, (requestedDays(days) * 8) \div DayParts)

\* get-weather-forecast: every eighth entry from the first, then
\* formatWeatherForecast, whose timestamp is the entry's dtRaw
dailyForecasts(limited) ==
  [k \in 1..((Len(limited) + 7) \div 8) |->
     Entry(<<>>, [timestamp |-> EpochSeconds(limited[8 * (k - 1) + 1].times.dt)], "")]

\* Math.round of a number in 1/Scale units (a half rounds upwards); of
\* undefined it is NaN, which JSON.stringify writes as null
MathRound(x) == IF x = {} THEN Null ELSE Number((2 * The(x) + Scale) \div (2 * Scale))

\* formatHourlyForecast: the datetime is formatDateTime's text; the entry has
\* no temp or feels_like of its own, so a falsy weather.temp.cur is replaced
\* by undefined
HourlyForecastEntry(hour) ==
  [Entry(Stringify([pressure |-> OrUndefined(Get(hour.weather, "pressure")),
                   uvi |-> Get(hour.weather, "uvi"),
                   clouds |-> Get(hour.weather, "clouds"),
                   pop |-> IF Falsy(Get(hour.weather, "pop")) THEN {Null}
                           ELSE {Number(100 * hour.weather.pop)}]),
        [datetime |-> formatDateTime(hour.times.dt),
         timestamp |-> EpochSeconds(hour.times.dt)], "") EXCEPT
     !.values = [current |-> MathRound(IF hour.weather.temp = 0 THEN {} ELSE {hour.weather.temp}),
                 feels_like |-> MathRound(IF hour.weather.feelsLike = 0 THEN {}
                                          ELSE {hour.weather.feelsLike})]]

\* get-daily-forecast: the gust is passed as read, rain and snow with || 0
DailyForecastEntry(day) ==
  Entry(Stringify([gust |-> Get(day.weather, "gust"),
                   rain |-> OrZero(Get(day.weather, "rain")),
                   snow |-> OrZero(Get(day.weather, "snow"))]),
        [date |-> toISODate(day.times.dt),
         sunrise |-> toISOString(day.times.sunrise),
         sunset |-> toISOString(day.times.sunset),
         moonrise |-> toISOString(day.times.moonrise),
         moonset |-> toISOString(day.times.moonset)], "")

\* the minutely part of get-onecall-weather
OneCallMinutelyEntry(minute) ==
  Entry(Stringify([rain |-> Get(minute.weather, "rain")]),
        [time |-> toISOString(minute.times.dt)], "")

\* get-minutely-forecast
MinutelyEntry(minute) ==
  [Entry(Stringify([rain |-> Get(minute.weather, "rain")]),
         [time |-> toISOString(minute.times.dt)], "") EXCEPT
     !.description = precipitationDescription(Read(minute.weather, "rain"))]

\* get-weather-alerts
AlertEntry(alert) ==
  Entry(<<>>, [start_time |-> toISOString(alert.times.start),
               end_time |-> toISOString(alert.times.end)], severity(alert.tags))

\* get-onecall-weather: gust, rain and snow are passed as read
OneCallEntry(part) ==
  Entry(Stringify([gust |-> Get(part.weather, "gust"),
                   rain |-> Get(part.weather, "rain"),
                   snow |-> Get(part.weather, "snow")]),
        [datetime |-> toISOString(part.times.dt)], "")

OneCallDailyEntry(day) ==
  Entry(Stringify([gust |-> Get(day.weather, "gust"),
                   rain |-> Get(day.weather, "rain"),
                   snow |-> Get(day.weather, "snow")]),
        [date |-> toISODate(day.times.dt),
         sunrise |-> toISOString(day.times.sunrise),
         sunset |-> toISOString(day.times.sunset)], "")

\* get-onecall-weather: the alerts carry no severity
OneCallAlertEntry(alert) ==
  Entry(<<>>, [start_time |-> toISOString(alert.times.start),
               end_time |-> toISOString(alert.times.end)], "")

\* get-onecall-weather: current, minutely, hourly, daily and alerts in turn
OneCallEntries(weatherData) ==
  [k \in DOMAIN weatherData.current |-> OneCallEntry(weatherData.current[k])]
    \o [k \in DOMAIN Slice(weatherData.minutely, 60) |-> OneCallMinutelyEntry(weatherData.minutely[k])]
    \o [k \in DOMAIN Slice(weatherData.hourly, 48) |-> OneCallEntry(weatherData.hourly[k])]
    \o [k \in DOMAIN Slice(weatherData.daily, 7) |-> OneCallDailyEntry(weatherData.daily[k])]
    \o [k \in DOMAIN weatherData.alerts |-> OneCallAlertEntry(weatherData.alerts[k])]

\* ------------------------------------------------------ upstream payloads
\* the optional properties of a weather object, given or not
Weathers(fields) == UNION {[present -> {0, 1}] : present \in SUBSET fields}

\* the instants of an entry, of a day and of an alert
EntryTimes(i) == [dt |-> 10800 * i]

DayTimes == [dt |-> 129600, sunrise |-> 108000, sunset |-> 151200,
             moonrise |-> 162000, moonset |-> 100800]

AlertTimes == [start |-> 3600, end |-> 7200]

\* the 3-hourly series of the forecast endpoint
ForecastSeries == {[i \in 1..n |-> Item(EntryTimes(i), <<>>, <<>>)] : n \in 0..MaxSeries}

\* the day counts the schema z.number().min(1).max(5).optional() admits,
\* in parts of a day; 0 stands for an omitted argument
DayCounts == {0} \cup {d * DayParts : d \in 1..5} \cup {DayParts + 1, DayParts + DayParts \div 2}

TagNames == {"severe", "extreme", "moderate", "Severe", "MODERATE", "severe-storm", "Flood"}

TagLists == UNION {[1..n -> TagNames] : n \in 0..MaxTags}

\* temperatures in 1/Scale degrees
Temperatures == {0 - (3 * Scale) \div 2, 0 - Scale \div 2, 0, Scale \div 2 - 1, Scale \div 2, 2 * Scale}

\* w with the temperature and the felt temperature every hour has
WithTemperatures(w, temp, feelsLike) ==
  [f \in DOMAIN w \cup {"temp", "feelsLike"} |->
     CASE f = "temp" -> temp [] f = "feelsLike" -> feelsLike [] OTHER -> w[f]]

HourlyItems ==
  {Item(EntryTimes(1), WithTemperatures(w, temp, feelsLike), <<>>) :
     w \in Weathers({"pressure", "uvi", "clouds", "pop"}),
     temp \in Temperatures, feelsLike \in {0, Scale \div 2}}

DailyItems == {Item(DayTimes, w, <<>>) : w \in Weathers({"gust", "rain", "snow"})}

\* rain rates in 1/Scale mm, up to just over half a millimetre
RainRates == 0..(Scale \div 2 + 1)

MinutelyItems ==
  {Item(EntryTimes(1), w, <<>>) : w \in {<<>>} \cup {[rain |-> r] : r \in RainRates}}

\* bearings from 0 to 360 degrees, and an answer without one
CurrentItems ==
  {Item(EntryTimes(1), w, <<>>) :
     w \in {<<>>} \cup {[deg |-> d] : d \in 0..(360 * BearingParts)}}

AlertItems == {Item(AlertTimes, <<>>, tags) : tags \in TagLists}

\* the parts of a One Call answer: each is absent, bare or complete
BareOrComplete(times, fields) ==
  {<<>>, <<Item(times, <<>>, <<>>)>>, <<Item(times, [f \in fields |-> 1], <<>>)>>}

OneCallAnswers ==
  {[NoUpstream EXCEPT !.current = current, !.minutely = minutely, !.hourly = hourly,
                      !.daily = daily, !.alerts = alerts] :
     current \in {<<>>} \cup {<<Item(EntryTimes(1), w, <<>>)>> : w \in Weathers({"gust", "rain", "snow"})},
     minutely \in {<<>>, <<Item(EntryTimes(1), [rain |-> 1], <<>>)>>},
     hourly \in BareOrComplete(EntryTimes(2), {"gust", "rain", "snow"}),
     daily \in BareOrComplete(DayTimes, {"gust", "rain", "snow"}),
     alerts \in {<<>>, <<Item(AlertTimes, <<>>, <<"severe">>)>>}}

\* ----------------------------------------------- the handlers' documents
\* the handler of `tool` builds its document from what the fetch resolved with
Emit(tool, payload, entries) ==
  /\ emitter = ""
  /\ emitter' = tool
  /\ upstream' = payload
  /\ emitted' = entries
  /\ UNCHANGED <<serverVars, parserVars, authVars, configVars>>

GetCurrentWeather ==
  \E weatherData \in CurrentItems :
    Emit("get-current-weather", [NoUpstream EXCEPT !.series = <<weatherData>>],
         <<CurrentWeatherEntry(weatherData)>>)

GetWeatherForecast ==
  \E forecastData \in ForecastSeries, days \in DayCounts :
    Emit("get-weather-forecast", [NoUpstream EXCEPT !.series = forecastData, !.days = days],
         dailyForecasts(limitedForecast(forecastData, days)))

GetHourlyForecast ==
  \E hour \in HourlyItems :
    Emit("get-hourly-forecast", [NoUpstream EXCEPT !.series = <<hour>>],
         <<HourlyForecastEntry(hour)>>)

GetDailyForecast ==
  \E day \in DailyItems :
    Emit("get-daily-forecast", [NoUpstream EXCEPT !.series = <<day>>],
         <<DailyForecastEntry(day)>>)

GetMinutelyForecast ==
  \E minute \in MinutelyItems :
    Emit("get-minutely-forecast", [NoUpstream EXCEPT !.series = <<minute>>],
         <<MinutelyEntry(minute)>>)

GetWeatherAlerts ==
  \E alert \in AlertItems :
    Emit("get-weather-alerts", [NoUpstream EXCEPT !.series = <<alert>>],
         <<AlertEntry(alert)>>)

GetOneCallWeather ==
  \E weatherData \in OneCallAnswers :
    Emit("get-onecall-weather", weatherData, OneCallEntries(weatherData))

NextFormat ==
  \/ GetCurrentWeather
  \/ GetWeatherForecast
  \/ GetHourlyForecast
  \/ GetDailyForecast
  \/ GetMinutelyForecast
  \/ GetWeatherAlerts
  \/ GetOneCallWeather

\* the formatters read nothing of the server's environment: the documents
\* are built in the HTTP server's start state
InitFormat == Init /\ transport = "httpStream"

SpecFormat == InitFormat /\ [][NextFormat]_vars

\* ------------------------------------- claims about the emitted documents
\* every field of `fields` is a key of the entry, and one the upstream item
\* lacks has the value 0 or null
AppearsOrDefault(item, entry, fields) ==
  \A f \in fields :
    /\ f \in DOMAIN entry.optional
    /\ f \notin DOMAIN item.weather => entry.optional[f] \in {Number(0), Null}

\* C17: an optional upstream field that the upstream response lacks still
\* appears in the tool's output, as 0 or null, and is never left out.
C17_OptionalFieldsAlwaysPresent ==
  /\ emitter = "get-daily-forecast" =>
       \A k \in DOMAIN emitted :
         AppearsOrDefault(upstream.series[k], emitted[k], {"gust", "rain", "snow"})
  /\ (emitter = "get-onecall-weather" /\ upstream.current # <<>>) =>
       AppearsOrDefault(upstream.current[1], emitted[1], {"gust", "rain", "snow"})
  /\ emitter = "get-hourly-forecast" =>
       \A k \in DOMAIN emitted :
         AppearsOrDefault(upstream.series[k], emitted[k], {"pressure", "uvi", "clouds", "pop"})
  /\ emitter = "get-minutely-forecast" =>
       \A k \in DOMAIN emitted :
         AppearsOrDefault(upstream.series[k], emitted[k], {"rain"})

\* C18: every time a tool emits is a count of seconds since the epoch or an
\* ISO-8601 string, never a string in the format of the host's locale.
C18_TimesEpochOrIso ==
  \A k \in DOMAIN emitted :
    \A key \in DOMAIN emitted[k].times :
      emitted[k].times[key].format \in {"epoch", "iso", "iso-date"}

\* the requested day count of the answered call, in parts of a day
AskedDays == IF upstream.days = 0 THEN 5 * DayParts ELSE upstream.days

\* the k with 8k < min(length(S), 8d)
SampledIndices ==
  {k \in 0..MaxSeries :
     /\ 8 * k < Len(upstream.series)
     /\ 8 * k * DayParts < 8 * AskedDays}

\* C19: for a series S and a day count d (5 when omitted) get-weather-forecast
\* emits one entry for exactly the k with 8k < min(length(S), 8d), the k-th
\* from S[8k], in source order, and so at most d entries.
C19_ForecastSampling ==
  emitter = "get-weather-forecast" =>
    /\ Len(emitted) = Cardinality(SampledIndices)
    /\ \A k \in SampledIndices :
         /\ k + 1 \in DOMAIN emitted
         /\ emitted[k + 1].times.timestamp = EpochSeconds(upstream.series[8 * k + 1].times.dt)
    /\ Len(emitted) * DayParts <= AskedDays

\* C20: the severity of an alert is High when its tags contain exactly
\* 'severe' or 'extreme', otherwise Medium when they contain 'moderate',
\* otherwise Low; the match is case-sensitive.
C20_AlertSeverity ==
  emitter = "get-weather-alerts" =>
    \A k \in DOMAIN emitted :
      LET tags == upstream.series[k].tags
          high == \E i \in DOMAIN tags : tags[i] \in {"severe", "extreme"}
          medium == \E i \in DOMAIN tags : tags[i] = "moderate"
      IN /\ emitted[k].severity \in {"High", "Medium", "Low"}
         /\ emitted[k].severity = "High" <=> high
         /\ emitted[k].severity = "Medium" <=> (~high /\ medium)

\* an alert tagged both 'moderate' and 'extreme' was graded High
C20_Witness ==
  /\ emitter = "get-weather-alerts"
  /\ upstream.series[1].tags = <<"moderate", "extreme">>
  /\ emitted[1].severity = "High"

\* C21: get-minutely-forecast describes a rain rate r >= 0 as 'No
\* precipitation' when r = 0, 'Light rain' when 0 < r < 0.1, 'Moderate rain'
\* when 0.1 <= r < 0.5 and 'Heavy rain' when r >= 0.5, one label for each r.
C21_PrecipitationBuckets ==
  emitter = "get-minutely-forecast" =>
    \A k \in DOMAIN emitted :
      "rain" \in DOMAIN upstream.series[k].weather =>
        LET r == upstream.series[k].weather.rain
            label == emitted[k].description
        IN /\ label \in {"No precipitation", "Light rain", "Moderate rain", "Heavy rain"}
           /\ label = "No precipitation" <=> r = 0
           /\ label = "Light rain" <=> (0 < r /\ 10 * r < Scale)
           /\ label = "Moderate rain" <=> (Scale <= 10 * r /\ 2 * r < Scale)
           /\ label = "Heavy rain" <=> Scale <= 2 * r

\* a rate of exactly 0.1 was described as moderate
C21_Witness ==
  /\ emitter = "get-minutely-forecast"
  /\ "rain" \in DOMAIN upstream.series[1].weather
  /\ 10 * upstream.series[1].weather.rain = Scale
  /\ emitted[1].description = "Moderate rain"

\* twice the distance round the circle between a bearing and the centre of
\* sector k, in parts of a degree
SectorDistance(d, k) ==
  The({IF diff <= 360 * BearingParts THEN diff ELSE 720 * BearingParts - diff :
         diff \in {IF 2 * d >= 45 * k * BearingParts
                     THEN 2 * d - 45 * k * BearingParts
                     ELSE 45 * k * BearingParts - 2 * d}})

\* C22: for a bearing d in [0, 360] the direction is one of the 16 labels,
\* that of a sector whose centre (a multiple of 22.5 degrees, 360 counting as
\* 0) is nearest to d; 360 and the bearings above 348.75 give N.
C22_NearestCompassSector ==
  emitter = "get-current-weather" =>
    \A e \in DOMAIN emitted :
      "deg" \in DOMAIN upstream.series[e].weather =>
        LET d == upstream.series[e].weather.deg
        IN /\ \E k \in 0..15 :
                /\ emitted[e].direction = Directions[k + 1]
                /\ \A other \in 0..15 : SectorDistance(d, k) <= SectorDistance(d, other)
           /\ 4 * d > 1395 * BearingParts => emitted[e].direction = "N"

\* a bearing just under 360 degrees was reported as N
C22_Witness ==
  /\ emitter = "get-current-weather"
  /\ "deg" \in DOMAIN upstream.series[1].weather
  /\ upstream.series[1].weather.deg = 360 * BearingParts - 1
  /\ emitted[1].direction = "N"

\* n is an integer nearest to the value t given in 1/Scale units
NearestInteger(n, t) == 2 * n * Scale - 2 * t <= Scale /\ 2 * t - 2 * n * Scale <= Scale

\* C30: formatHourlyForecast emits temperature.current and
\* temperature.feels_like as the upstream value rounded to the nearest
\* integer, exactly 0 included, and pop as the percentage of the upstream
\* probability, 0 included.
C30_HourlyRoundedValues ==
  emitter = "get-hourly-forecast" =>
    \A k \in DOMAIN emitted :
      LET w == upstream.series[k].weather
      IN /\ \E n \in -2..2 : /\ emitted[k].values.current = Number(n)
                            /\ NearestInteger(n, w.temp)
         /\ \E n \in -2..2 : /\ emitted[k].values.feels_like = Number(n)
                            /\ NearestInteger(n, w.feelsLike)
         /\ "pop" \in DOMAIN w => emitted[k].optional.pop = Number(100 * w.pop)

\* ------------------------------------ claims about the client's configuration
\* C23 as stated: after any sequence of calls of configureClientForLocation
\* on a cached client its unit system is that of the most recent call that
\* supplied units, or metric if none did.
C23_UnitsOfLastSupplyingCall ==
  \A c \in DOMAIN clients : clients[c].units = unitsHistory[clients[c].key].supplied

\* C23: after any sequence of calls of configureClientForLocation on a cached
\* client its unit system is that of the most recent call that supplied units
\* and returned, or metric if there was none; a call without units and a call
\* that throws leave the unit system as it was.
C23_UnitsOfLastReturnedCall ==
  \A c \in DOMAIN clients : clients[c].units = unitsHistory[clients[c].key].returned

\* a call without units returned and the client is still imperial
C23_Witness ==
  /\ inv[1].pc = "configured"
  /\ inv[1].args.units = None
  /\ clients[inv[1].client].units = "imperial"
  /\ configures >= 2

\* C29: a call of configureClientForLocation that raises the invalid-location
\* error leaves every client as it was before the call, location and unit
\* system, also when the call supplied units.
C29_RejectedCallChangesNothing ==
  [][(configures' = configures + 1 /\ inv'[1].err = InvalidLocationError) =>
       /\ inv'[1].pc = "rejected"
       /\ clients' = clients]_vars

\* a call with units was rejected on a client configured before
C29_Witness ==
  /\ inv[1].pc = "rejected"
  /\ inv[1].err = InvalidLocationError
  /\ inv[1].args.units = "imperial"
  /\ clients[inv[1].client].units = "metric"
  /\ clients[inv[1].client].location # NoLocation

\* ----------------------------------------- claims about the handlers' steps
C24_Step ==
  /\ \A i \in Invocations :
       (inv[i].pc = "idle" /\ inv'[i].pc # "idle") =>
          /\ inv'[i].pc \in {"issued", "failed"}
          /\ inv'[i].pc = "issued" =>
               /\ inv'[i].calls = 1
               /\ clients'[inv'[i].client].location =
                    ConfiguredLocation(inv'[i].tool, inv'[i].args)
          /\ inv'[i].pc = "failed" => inv'[i].calls = 0
          /\ \A j \in Invocations \ {i} : inv'[j] = inv[j]
  /\ clients' # clients =>
       \E i \in Invocations : inv[i].pc = "idle" /\ inv'[i].pc = "issued"
  /\ \A i \in Invocations :
       inv[i].pc \in {"issued", "inflight"} =>
         inv'[i].pc \in {"issued", "inflight", "done", "failed"}

\* C24: an invocation is suspended only at its upstream call: client
\* resolution, configuration and the issuing of the call are one step, in
\* which no other invocation moves, so the client holds the invocation's own
\* configuration when its call is issued; from the call the handler goes
\* straight to its result or its failure.
C24_OneSuspensionPoint == [][C24_Step]_vars

\* invocation 2 configured the shared client and issued its call while
\* invocation 1 was suspended at its own
C24_Witness ==
  /\ inv[1].pc = "issued" /\ inv[2].pc = "issued"
  /\ inv[1].client = inv[2].client
  /\ clients[inv[2].client].location = ConfiguredLocation(inv[2].tool, inv[2].args)
  /\ ConfiguredLocation(inv[1].tool, inv[1].args) # ConfiguredLocation(inv[2].tool, inv[2].args)

C25_State ==
  \A i \in Invocations :
    /\ inv[i].pc = "failed" =>
         /\ inv[i].errLogs = 1
         /\ inv[i].logged = (IF inv[i].err.isError THEN inv[i].err.message
                             ELSE <<"Unknown error">>)
         /\ inv[i].result.kind \notin {"none", "ok"}
    /\ inv[i].pc # "failed" => inv[i].errLogs = 0

C25_Step ==
  \A i \in Invocations :
    (inv[i].pc # "idle" /\ inv'[i].pc = "idle" /\ inv[i].result # Success) =>
       inv[i].pc = "failed" /\ inv[i].errLogs = 1

\* C25: in every handler a failing invocation, wherever the failure arises,
\* writes exactly one error log entry that carries the error's message, and
\* the entry is written before the translated error reaches the caller.
C25_OneErrorLogBeforeDelivery == []C25_State /\ [][C25_Step]_vars

\* a formatting failure of get-daily-forecast was logged once
C25_Witness ==
  /\ inv[1].tool.name = "get-daily-forecast"
  /\ inv[1].pc = "failed"
  /\ inv[1].err = FormatError
  /\ inv[1].errLogs = 1
  /\ inv[1].logged = FormatError.message

C26_Step ==
  (inv[2].pc # "idle" /\ inv'[2].pc = "idle") =>
     \/ inv[2].pc = "done" /\ inv[2].result = Success /\ inv[2].err = NoError
     \/ inv[2].pc = "failed" /\ inv[2].result.kind \notin {"none", "ok"}

\* C26: whatever becomes of the upstream call of invocation 1, which may
\* never return, invocation 2, whose upstream call returns, is eventually
\* delivered, with one result: the success document or an error message;
\* this also when both use the same credential and client.
C26_HungCallBlocksOnlyItself ==
  /\ (inv[2].pc # "idle") ~> (inv[2].pc = "idle")
  /\ [][C26_Step]_vars

\* invocation 2 has its result while invocation 1, on the same client, is
\* still waiting for its call
C26_Witness ==
  /\ inv[1].pc = "inflight"
  /\ inv[2].pc = "done"
  /\ inv[1].client = inv[2].client
  /\ inv[1].session = inv[2].session

\* C27: in a successful response of get-current-weather, get-weather-forecast
\* and get-hourly-forecast the unit labels are those of the unit system the
\* invocation's upstream fetch was performed with.
C27_LabelsMatchFetchedUnits ==
  \A i \in Invocations :
    (inv[i].pc = "done" /\ inv[i].tool.name \in {"get-current-weather",
                                                 "get-weather-forecast",
                                                 "get-hourly-forecast"}) =>
       /\ inv[i].document.temperature = ExpectedLabels(inv[i].fetch.units).temperature
       /\ inv[i].document.wind = ExpectedLabels(inv[i].fetch.units).wind
       /\ inv[i].document.visibility \in {"-", ExpectedLabels(inv[i].fetch.units).visibility}

C28_State ==
  \A i \in Invocations :
    inv[i].pc \in {"issued", "inflight"} => clients[inv[i].client].key = KeyOf(i)

C28_Step ==
  \A c \in DOMAIN clients :
    clients'[c] # clients[c] =>
      \E i \in Invocations :
        /\ inv'[i] # inv[i]
        /\ EffectiveSession(inv'[i].session, stdioSession).apiKey = clients[c].key

\* C28: the client cached for a credential changes, in location or units,
\* only in a step of an invocation under that credential, and the upstream
\* call of an invocation is made by the client constructed with the
\* invocation's own credential.
C28_CredentialIsolation == []C28_State /\ [][C28_Step]_vars

\* two invocations under different credentials wait for their calls, each on
\* its own client with its own configuration
C28_Witness ==
  /\ inv[1].pc = "inflight" /\ inv[2].pc = "inflight"
  /\ inv[1].session # inv[2].session
  /\ inv[1].client # inv[2].client
  /\ inv[1].fetch.location # inv[2].fetch.location

====
